---- MODULE Spec2Model ----
(***************************************************************************)
(* Model of the Vinted harvesting tool (vinted_scraper.py): the URL        *)
(* classifier, the lazy-load detector scroll_until_all_items_loaded, the   *)
(* per-item extraction and download routine download_images and the        *)
(* __main__ orchestrator that sequences them.                              *)
(*                                                                         *)
(* The browser, the web site and the HTTP client are the environment:      *)
(* every call into them is a nondeterministic choice over the outcomes     *)
(* the call can have (a value, or a raised exception).                     *)
(***************************************************************************)
EXTENDS Integers, Sequences, FiniteSets, TLC

(***************************************************************************)
(* Bounds of the model                                                     *)
(***************************************************************************)
\* number of distinct item URLs a profile page can show
MaxItems == 3
\* number of elements one find_elements call for images can return
MaxMatches == 3
\* number of item URLs of the profile in a whole run of the program
MaxHarvest == 2
\* number of labels before the top-level name in the host of an argument
MaxLabels == 2
\* number of requests the HTTP front-end handles at the same time
MaxHandlers == 2

(***************************************************************************)
(* Program constants                                                       *)
(***************************************************************************)
\* default of the max_scrolls parameter; no caller overrides it
max_scrolls == 30

\* Python's None where the other values are integers
NoCount == -1
\* an anchor whose href attribute reads as None
NoHref == "<no-href>"

ItemNames == <<"item1", "item2", "item3", "item4">>
ItemUniverse == { ItemNames[i] : i \in 1..4 }
ProfileItems == { s \in SUBSET ItemUniverse : Cardinality(s) <= MaxItems }

\* all orders in which list(a_set) can enumerate a set
RECURSIVE Orders(_)
Orders(S) ==
    IF S = {} THEN { <<>> }
    ELSE UNION { { <<x>> \o o : o \in Orders(S \ {x}) } : x \in S }

\* the elements of a sequence
Range(s) == { s[i] : i \in 1..Len(s) }

(***************************************************************************)
(* Values of download_images                                               *)
(***************************************************************************)
\* Python's None where the other values are strings
None == "<None>"
\* an optional element that the item page does not contain
Absent == "<absent>"

\* the five optional fields, in the order the code probes them
FieldOrder == <<"description", "price", "size", "condition", "color">>
Fields == Range(FieldOrder)
\* element texts: a text with surrounding whitespace, and for the first and
\* the last field also blank text
PageTexts(f) ==
    IF f \in {"description", "color"} THEN {"  ", " red "} ELSE {" red "}
\* str.strip() on these texts
Strip(text) ==
    CASE text = "  " -> ""
      [] text = " red " -> "red"
      [] OTHER -> text
NoFields == [f \in Fields |-> None]

\* an img src: which image it shows, whether the text contains 'vinted.net',
\* whether it contains '/t/', whether it starts with 'http', and the
\* extension its path ends in
Src(i, m, t, a) == [img |-> i, media |-> m, thumb |-> t, abs |-> a, tail |-> ""]
PhotoA == Src("a", TRUE, TRUE, TRUE)
\* the same photo given scheme-relative: //images.vinted.net/t/a
PhotoARel == Src("a", TRUE, TRUE, FALSE)
PhotoB == Src("b", TRUE, TRUE, TRUE)
\* a picture on the media host outside the /t/ path
Avatar == Src("p", TRUE, FALSE, TRUE)
\* a picture of another host
Banner == Src("x", FALSE, FALSE, TRUE)
SrcUniverse == {PhotoA, PhotoARel, PhotoB, Avatar, Banner}
\* get_attribute('src') gives None, or raises on a stale element
NoSrc == Src("<none>", FALSE, FALSE, FALSE)
StaleSrc == Src("<stale>", FALSE, FALSE, FALSE)

\* article_name before line 234 has bound it
Unbound == "<unbound>"
\* extract_article_name: the page heading, or the name rebuilt from the URL
ArticleNames == {"title", "from-url"}

\* what a streamed requests.get of an image can do
FetchOutcomes == {"ok", "get_raises", "bad_status", "body_breaks"}

\* the endings of an image URL, and the photos of an item page by ending
UrlTails == {"", ".jpg", ".jpeg", ".JPEG", ".png", ".webp"}
TailPhotos == { [PhotoA EXCEPT !.tail = t] : t \in UrlTails }
\* values of the content-type header; "" is the default of headers.get
ContentTypes == {"image/jpeg", "IMAGE/JPEG", "image/png", "image/webp", ""}

\* str.lower() on these texts
LowerText(text) ==
    CASE text = "IMAGE/JPEG" -> "image/jpeg"
      [] text = ".JPEG" -> ".jpeg"
      [] OTHER -> text

\* word in text, for these texts
Contains(text, word) ==
    <<text, word>> \in { <<"image/jpeg", "jpeg">>, <<"image/png", "png">>,
                         <<".jpeg", ".jpeg">> }

\* lines 368-376: the extension of the image file
Extension(content_type_header, tail) ==
    LET content_type == LowerText(content_type_header)
    IN  IF Contains(content_type, "jpeg") THEN ".jpg"
        ELSE IF Contains(content_type, "png") THEN ".png"
        ELSE IF Contains(LowerText(tail), ".jpeg") THEN ".jpg" ELSE ".png"

VARIABLES
    site,            \* the web site as it is during the run (input)
    sessions,        \* browser sessions that are open
    opened,          \* browser sessions that were ever opened
    folders,         \* folders created by this run
    descs,           \* folder -> content of its description.txt
    ledger,          \* lines of failed_images.txt
    http_used,       \* requests.get was called by this run
    pc,              \* position in the __main__ block
    mode,            \* "all", "item" or "none": the argument that was given
    raw,             \* the text of that argument
    validated_url,   \* locals of the __main__ block ...
    username,
    profile_pic_url,
    item_urls,
    index,
    ga_username,     \* username as get_all_item_urls has it
    ga_pic,          \* profile_pic_url as get_all_item_urls has it
    called,          \* item URLs download_images was called for (history)
    avatar,          \* what became of the profile picture (history)
    preflight,       \* what check_url_accessible found (history)
    dpc,             \* position in download_images
    item_url,        \* its parameter
    base_folder,     \* its parameter
    article_name,    \* its locals ...
    fields,
    pidx,
    unique_image_urls,
    sel,
    retries,
    order,
    idx,
    probed,          \* fields probed by this call (history)
    probe_failed,    \* fields whose probe raised in this call (history)
    skipped,         \* this call took the branch of line 302 (history)
    queries,         \* image queries made by this call (history)
    fetch_log,       \* image fetches of this call and their outcome (history)
    written,         \* image files written by this call (history)
    disk_before,     \* descs as this call found it (history)
    rematched,       \* a query matched a URL already collected (history)
    sources,         \* the strategies whose query added a URL (history)
    spc,             \* position in scroll_until_all_items_loaded
    expected_count,  \* its parameter: NoCount, or the count read from the heading
    scrolls,         \* its local counter
    seen_links,      \* its local set
    rounds,          \* number of loop bodies started (history)
    dropped,         \* a round did not show a URL seen before (history)
    scroll_result,   \* the list it returned
    cwd,             \* working directory of the api.py server process
    temp_dirs,       \* temporary directories that exist
    handlers         \* request handlers of api.py: position and locals

scrollVars == <<spc, expected_count, scrolls, seen_links, rounds, dropped,
               scroll_result>>
worldVars == <<sessions, opened, folders, descs, ledger, http_used>>
mainVars == <<pc, mode, raw, validated_url, username, profile_pic_url,
              item_urls, index, ga_username, ga_pic, called, avatar, preflight>>
itemVars == <<dpc, item_url, base_folder, article_name, fields, pidx,
              unique_image_urls, sel, retries, order, idx, probed,
              probe_failed, skipped, queries, fetch_log, written,
              disk_before, rematched, sources>>
apiVars == <<cwd, temp_dirs, handlers>>
vars == <<site, worldVars, mainVars, scrollVars, itemVars, apiVars>>

\* the directory api.py was started in
ServerRoot == "root"

\* the HTTP front-end is not what runs
ApiIdle ==
    /\ cwd = ServerRoot
    /\ temp_dirs = {}
    /\ handlers = << >>

(***************************************************************************)
(* scroll_until_all_items_loaded                                           *)
(***************************************************************************)
\* truth value of an optional count in a Python condition
TruthyNotNone(c) == c # NoCount
Truthy(c) == c # NoCount /\ c # 0

\* while scrolls < max_scrolls
LoopCondOffByOne(s) == s <= max_scrolls
LoopCond(s) == s < max_scrolls

\* if expected_count and len(seen_links) >= expected_count
EarlyExitStrict(expected, n) == Truthy(expected) /\ n > expected
EarlyExit(expected, n) == Truthy(expected) /\ n >= expected

\* seen_links.update(new_links)
UpdateReplace(seen, new_links) == new_links
Update(seen, new_links) == seen \cup new_links

\* one pass of the while body: scroll, settle, query the anchors, union
ScrollRound ==
    /\ spc = "loop"
    /\ LoopCond(scrolls)
    /\ rounds' = rounds + 1
    /\ \/ \* execute_script or find_elements raises
          /\ spc' = "raised"
          /\ UNCHANGED <<scrolls, seen_links, dropped>>
       \/ \E anchors \in SUBSET (site.items \cup {NoHref}) :
            LET new_links == anchors \ {NoHref}
                seen == Update(seen_links, new_links)
            IN  /\ seen_links' = seen
                /\ dropped' = (dropped \/ seen_links \ new_links # {})
                /\ IF EarlyExit(expected_count, Cardinality(seen))
                   THEN spc' = "break" /\ UNCHANGED scrolls
                   ELSE spc' = "loop" /\ scrolls' = scrolls + 1
    /\ UNCHANGED <<site, apiVars, mainVars, expected_count, scroll_result, worldVars, itemVars>>

\* the call is over
ScrollEnded == spc \in {"returned", "raised"}

\* the loop is left, by the break or by its condition: return list(seen_links)
ScrollReturn ==
    /\ \/ spc = "break"
       \/ spc = "loop" /\ ~LoopCond(scrolls)
    /\ \E listing \in Orders(seen_links) : scroll_result' = listing
    /\ spc' = "returned"
    /\ UNCHANGED <<site, apiVars, mainVars, expected_count, scrolls, seen_links, rounds,
                   dropped, worldVars, itemVars>>

(***************************************************************************)
(* validate_url and is_valid_vinted_url.  A URL text is the sequence of    *)
(* its pieces: " " is whitespace, a piece ending in "://" is a scheme      *)
(* prefix, a piece starting with "/" is a path segment, every other piece  *)
(* is host or name text.                                                   *)
(***************************************************************************)
SchemePieces == {"http://", "https://", "ftp://"}
PathPieces == {"/items/", "/member/", "/catalog/", "/user/", "/Items/",
               "/Member/", "/other/"}

\* str.strip()
RECURSIVE StripLeft(_)
StripLeft(text) ==
    IF text # <<>> /\ Head(text) = " " THEN StripLeft(Tail(text)) ELSE text
RECURSIVE StripRight(_)
StripRight(text) ==
    IF text # <<>> /\ text[Len(text)] = " "
    THEN StripRight(SubSeq(text, 1, Len(text) - 1))
    ELSE text
StripText(text) == StripRight(StripLeft(text))

\* url.startswith(('http://', 'https://'))
StartsWithWebScheme(text) == text # <<>> /\ Head(text) \in {"http://", "https://"}

\* the number of leading pieces of text that hold no "/"
RECURSIVE HostLen(_)
HostLen(text) ==
    IF text = <<>> \/ Head(text) \in SchemePieces \cup PathPieces THEN 0
    ELSE 1 + HostLen(Tail(text))

\* urlparse(url): the scheme, the netloc up to the first "/", the path
UrlParse(text) ==
    LET hasScheme == text # <<>> /\ Head(text) \in SchemePieces
        rest == IF hasScheme THEN Tail(text) ELSE text
        n == IF hasScheme THEN HostLen(rest) ELSE 0
    IN  [scheme |-> IF hasScheme THEN Head(text) ELSE "",
         netloc |-> SubSeq(rest, 1, n),
         path |-> SubSeq(rest, n + 1, Len(rest))]

\* str.lower() of a path segment
Lower(piece) ==
    CASE piece = "/Items/" -> "/items/"
      [] piece = "/Member/" -> "/member/"
      [] OTHER -> piece

\* 'vinted.' in piece: the text of a host label ends in its dot, so the
\* substring lies inside one label
HasVintedDot(piece) == piece \in {"vinted.", "notvinted."}

\* is_valid_vinted_url
is_valid_vinted_url(text) ==
    LET parsed == UrlParse(text)
    IN  /\ parsed.scheme \in {"http://", "https://"}
        /\ \E i \in 1..Len(parsed.netloc) : HasVintedDot(parsed.netloc[i])
        /\ parsed.path # <<>>
        /\ Lower(Head(parsed.path)) \in {"/items/", "/member/", "/catalog/", "/user/"}

\* validate_url returns None
Rejected == <<"<None>">>

\* validate_url
validate_url(text) ==
    LET stripped == StripText(text)
        url == IF StartsWithWebScheme(stripped) THEN stripped
               ELSE <<"https://">> \o stripped
    IN  IF is_valid_vinted_url(url) THEN url ELSE Rejected

(***************************************************************************)
(* download_images                                                         *)
(***************************************************************************)
\* os.path.join(base_folder, folder_name)
FullFolderPath(base, name) == <<base, name>>

\* os.path.exists(description_path)
DescriptionNeverExists(disk, folder) == FALSE
DescriptionExists(disk, folder) == folder \in DOMAIN disk

\* the probe after probe number i; failed tells whether probe i raised
ProbeAfterAbort(i, failed) == IF failed THEN Len(FieldOrder) + 1 ELSE i + 1
ProbeAfter(i, failed) == i + 1

\* if description or price or size or condition or color
HasInfoNotNone(rec) == \E f \in Fields : rec[f] # None
HasInfo(rec) == \E f \in Fields : rec[f] # None /\ rec[f] # ""

\* set.add on the set kept as the sequence of its distinct members
ListAppend(members, x) == Append(members, x)
SetAdd(members, x) ==
    IF x \in Range(members) THEN members ELSE Append(members, x)

\* urljoin(item_url, img_url) of a scheme-relative src
UrlJoin(src) == [src EXCEPT !.abs = TRUE]

\* the for img in images loop of a selector strategy (lines 323-331)
RECURSIVE CollectBySelector(_, _)
CollectBySelector(images, members) ==
    IF images = <<>> THEN members
    ELSE LET src == Head(images)
             kept == IF src \notin {NoSrc, StaleSrc} /\ src.media /\ src.thumb
                     THEN SetAdd(members,
                                 IF ~src.abs THEN UrlJoin(src) ELSE src)
                     ELSE members
         IN  CollectBySelector(Tail(images), kept)

\* the for img in images loop of the scroll fallback (lines 347-353)
RECURSIVE CollectByFallback(_, _)
CollectByFallback(images, members) ==
    IF images = <<>> THEN members
    ELSE LET src == Head(images)
             kept == IF src \notin {NoSrc, StaleSrc} /\ src.media
                     THEN SetAdd(members, src)
                     ELSE members
         IN  CollectByFallback(Tail(images), kept)

\* the number of matched elements whose src passes the filter of a strategy
RECURSIVE Accepted(_, _)
Accepted(images, needThumb) ==
    IF images = <<>> THEN 0
    ELSE LET src == Head(images)
             pass == /\ src \notin {NoSrc, StaleSrc}
                     /\ src.media
                     /\ (needThumb => src.thumb)
         IN  (IF pass THEN 1 ELSE 0) + Accepted(Tail(images), needThumb)

\* more elements passed the filter than members were added
Rematch(images, before, after, needThumb) ==
    Accepted(images, needThumb) > Len(after) - Len(before)

\* what find_elements can return for an image selector: the img elements
\* that are in the DOM right now, by their src
MatchLists ==
    UNION { [1..n -> site.gallery \cup {NoSrc, StaleSrc}] : n \in 0..MaxMatches }

\* the orders in which enumerate(unique_image_urls) can visit the members
IterationOrders(members) ==
    { [i \in 1..Len(members) |-> members[p[i]]] : p \in Orders(1..Len(members)) }

\* the ordinal in the name of an image file (lines 360 and 379): the idx of
\* enumerate(unique_image_urls, start=1), whatever was saved before it
OrdinalRenumbered(position, saved) == saved + 1
Ordinal(position, saved) == position

\* lines 309-316: the selector strategies, narrowest first
image_selectors ==
    <<"figure.item-description img", "figure.item-photo img",
      "li.Carousel img", "img:not([role='img'])">>
\* the scroll fallback of lines 341-355, counted as the strategy after them
ScrollFallback == Len(image_selectors) + 1
\* for _ in range(3)
scroll_attempts == 3

\* line 333: if unique_image_urls: break
NeverBreak(members) == FALSE
BreakAfterStrategy(members) == members # <<>>

\* line 341: if not unique_image_urls
FallbackAlways(members) == TRUE
FallbackNeeded(members) == members = <<>>

\* the locals of a call that has not run yet
ItemLocalsFresh ==
    /\ article_name = Unbound
    /\ fields = NoFields
    /\ pidx = 0
    /\ unique_image_urls = <<>>
    /\ sel = 0
    /\ retries = 0
    /\ order = <<>>
    /\ idx = 0
    /\ probed = {}
    /\ probe_failed = {}
    /\ skipped = FALSE
    /\ queries = 0
    /\ fetch_log = <<>>
    /\ written = {}
    /\ disk_before = << >>
    /\ rematched = FALSE
    /\ sources = {}

\* line 226: driver = setup_driver(), outside the try
DiSetup ==
    /\ dpc = "call"
    /\ \/ \* chromedriver missing, or the browser does not start
          /\ dpc' = "raised"
          /\ UNCHANGED <<sessions, opened>>
       \/ /\ sessions' = sessions \cup {"item"}
          /\ opened' = opened \cup {"item"}
          /\ dpc' = "navigate"
    /\ disk_before' = descs
    /\ UNCHANGED <<site, apiVars, mainVars, http_used, folders, descs, ledger, scrollVars, item_url,
                   base_folder, article_name, fields, pidx, unique_image_urls,
                   sel, retries, order, idx, probed, probe_failed, skipped,
                   queries, fetch_log, written, rematched, sources>>

\* lines 229-240 (and 302): load the page, name the item, make its folder,
\* look for description.txt
DiNavigate ==
    /\ dpc = "navigate"
    /\ \/ \* driver.get raises: the finally block quits the driver and
          \* then reads article_name, which is unbound: that error leaves
          /\ sessions' = sessions \ {"item"}
          /\ dpc' = "raised"
          /\ UNCHANGED <<article_name, folders, pidx, sel, skipped>>
       \/ \E name \in ArticleNames :
            LET folder == FullFolderPath(base_folder, name)
            IN  /\ article_name' = name
                /\ folders' = folders \cup {folder}
                /\ IF DescriptionExists(descs, folder)
                   THEN /\ skipped' = TRUE
                        /\ dpc' = "select"
                        /\ sel' = 1
                        /\ UNCHANGED pidx
                   ELSE /\ dpc' = "probe"
                        /\ pidx' = 1
                        /\ UNCHANGED <<skipped, sel>>
                /\ UNCHANGED sessions
    /\ UNCHANGED <<site, apiVars, mainVars, http_used, opened, descs, ledger, scrollVars, item_url,
                   base_folder, fields, unique_image_urls, retries, order, idx,
                   probed, probe_failed, queries, fetch_log, written,
                   disk_before, rematched, sources>>

\* one of the five try/except blocks of lines 242-294
DiProbe ==
    /\ dpc = "probe"
    /\ LET f == FieldOrder[pidx]
           Advance(failed) ==
               LET n == ProbeAfter(pidx, failed)
               IN  /\ pidx' = n
                   /\ dpc' = IF n > Len(FieldOrder) THEN "save" ELSE "probe"
       IN  /\ probed' = probed \cup {f}
           /\ \/ \* the wait times out or the element goes stale
                 /\ fields' = [fields EXCEPT ![f] = None]
                 /\ probe_failed' = probe_failed \cup {f}
                 /\ Advance(TRUE)
              \/ /\ site.fields[f] # Absent
                 /\ fields' = [fields EXCEPT ![f] = Strip(site.fields[f])]
                 /\ UNCHANGED probe_failed
                 /\ Advance(FALSE)
    /\ UNCHANGED <<site, apiVars, mainVars, worldVars, scrollVars, item_url, base_folder,
                   article_name, unique_image_urls, sel, retries, order, idx,
                   skipped, queries, fetch_log, written, disk_before,
                   rematched, sources>>

\* lines 296-300 and save_description
DiSave ==
    /\ dpc = "save"
    /\ LET folder == FullFolderPath(base_folder, article_name)
       IN  IF HasInfo(fields)
           THEN descs' = [p \in DOMAIN descs \cup {folder} |->
                            IF p = folder THEN fields ELSE descs[p]]
           ELSE UNCHANGED descs
    /\ dpc' = "select"
    /\ sel' = 1
    /\ UNCHANGED <<site, apiVars, mainVars, http_used, sessions, opened, folders, ledger, scrollVars,
                   item_url, base_folder, article_name, fields, pidx,
                   unique_image_urls, retries, order, idx, probed,
                   probe_failed, skipped, queries, fetch_log, written,
                   disk_before, rematched, sources>>

\* the for idx, img_url in enumerate(unique_image_urls) loop is entered
EnterDownloads(members) ==
    /\ \E o \in IterationOrders(members) : order' = o
    /\ idx' = 1
    /\ dpc' = IF members = <<>> THEN "finally" ELSE "download"

\* one pass of the for selector in image_selectors loop (lines 318-341)
DiSelector ==
    /\ dpc = "select"
    /\ queries' = queries + 1
    /\ \E found \in {<<"raised">>} \cup { <<"list", l>> : l \in MatchLists } :
         LET members == IF found[1] = "raised" THEN unique_image_urls
                        ELSE CollectBySelector(found[2], unique_image_urls)
         IN  /\ unique_image_urls' = members
             /\ sources' = IF members # unique_image_urls
                           THEN sources \cup {sel} ELSE sources
             /\ rematched' = (rematched \/
                     (found[1] = "list" /\
                      Rematch(found[2], unique_image_urls, members, TRUE)))
             /\ IF \/ found[1] = "list" /\ BreakAfterStrategy(members)
                   \/ sel = Len(image_selectors)
                THEN \* the loop is left, by the break or at its end
                     IF FallbackNeeded(members)
                     THEN /\ dpc' = "retry"
                          /\ retries' = 0
                          /\ UNCHANGED <<sel, order, idx>>
                     ELSE /\ EnterDownloads(members)
                          /\ UNCHANGED <<sel, retries>>
                ELSE /\ sel' = sel + 1
                     /\ UNCHANGED <<dpc, retries, order, idx>>
    /\ UNCHANGED <<site, apiVars, mainVars, worldVars, scrollVars, item_url, base_folder,
                   article_name, fields, pidx, probed, probe_failed, skipped,
                   fetch_log, written, disk_before>>

\* one pass of the for _ in range(3) scroll fallback (lines 343-355)
DiRetry ==
    /\ dpc = "retry"
    /\ \/ \* execute_script or find_elements raises: caught at line 393
          /\ dpc' = "finally"
          /\ UNCHANGED <<unique_image_urls, retries, order, idx, queries,
                         rematched, sources>>
       \/ /\ queries' = queries + 1
          /\ \E images \in MatchLists :
               LET members == CollectByFallback(images, unique_image_urls)
               IN  /\ unique_image_urls' = members
                   /\ sources' = IF members # unique_image_urls
                                 THEN sources \cup {ScrollFallback}
                                 ELSE sources
                   /\ rematched' = (rematched \/
                         Rematch(images, unique_image_urls, members, FALSE))
                   /\ IF members # <<>> \/ retries + 1 = scroll_attempts
                      THEN EnterDownloads(members) /\ UNCHANGED retries
                      ELSE /\ retries' = retries + 1
                           /\ UNCHANGED <<dpc, order, idx>>
    /\ UNCHANGED <<site, apiVars, mainVars, worldVars, scrollVars, item_url, base_folder,
                   article_name, fields, pidx, sel, probed, probe_failed,
                   skipped, fetch_log, written, disk_before>>

\* one pass of the download loop (lines 360-391)
DiDownload ==
    /\ dpc = "download"
    /\ LET img_url == order[idx]
       IN  \E outcome \in FetchOutcomes :
             \* a src without scheme is no URL for requests.get
             /\ ~img_url.abs => outcome = "get_raises"
             /\ fetch_log' = Append(fetch_log, [url |-> img_url, outcome |-> outcome])
             /\ IF outcome \in {"ok", "body_breaks"}
                THEN \E header \in site.ctypes :
                       written' = written \cup
                           {[idx |-> Ordinal(idx, Cardinality(written)),
                             url |-> img_url,
                             complete |-> outcome = "ok",
                             ctype |-> header,
                             ext |-> Extension(header, img_url.tail)]}
                ELSE written' = written
             /\ ledger' = IF outcome = "ok" THEN ledger
                          ELSE Append(ledger, img_url)
    /\ idx' = idx + 1
    /\ dpc' = IF idx + 1 > Len(order) THEN "finally" ELSE "download"
    /\ http_used' = TRUE
    /\ UNCHANGED <<site, apiVars, mainVars, sessions, opened, folders, descs, scrollVars, item_url,
                   base_folder, article_name, fields, pidx, unique_image_urls,
                   sel, retries, order, probed, probe_failed, skipped, queries,
                   disk_before, rematched, sources>>

\* lines 396-398: driver.quit(), the closing message, the return
DiFinally ==
    /\ dpc = "finally"
    /\ sessions' = sessions \ {"item"}
    /\ dpc' = "returned"
    /\ UNCHANGED <<site, apiVars, mainVars, http_used, opened, folders, descs, ledger, scrollVars, item_url,
                   base_folder, article_name, fields, pidx, unique_image_urls,
                   sel, retries, order, idx, probed, probe_failed, skipped,
                   queries, fetch_log, written, disk_before, rematched, sources>>

NextItem ==
    \/ DiSetup \/ DiNavigate \/ DiProbe \/ DiSave
    \/ DiSelector \/ DiRetry \/ DiDownload \/ DiFinally

(***************************************************************************)
(* The detector called on its own, for every expected_count                *)
(***************************************************************************)
\* the detector is not running
ScrollIdle ==
    /\ spc = "idle"
    /\ expected_count = NoCount
    /\ scrolls = 0
    /\ seen_links = {}
    /\ rounds = 0
    /\ dropped = FALSE
    /\ scroll_result = <<>>

\* download_images is not running
ItemIdle ==
    /\ dpc = "idle"
    /\ item_url = "item1"
    /\ base_folder = ""
    /\ ItemLocalsFresh

\* nothing opened, nothing on disk
WorldFresh ==
    /\ sessions = {}
    /\ opened = {}
    /\ folders = {}
    /\ descs = << >>
    /\ ledger = <<>>
    /\ http_used = FALSE

\* the __main__ block is not what runs
MainIdle ==
    /\ pc = "idle"
    /\ mode = "none"
    /\ raw = <<>>
    /\ validated_url = <<>>
    /\ username = None
    /\ profile_pic_url = None
    /\ item_urls = <<>>
    /\ index = 0
    /\ ga_username = Unbound
    /\ ga_pic = Unbound
    /\ called = {}
    /\ avatar = "none"
    /\ preflight = "none"

\* an item page with a description and a price, and one photo
PlainFields ==
    [f \in Fields |-> IF f \in {"description", "price"} THEN " red " ELSE Absent]

InitScroll ==
    /\ site \in [items : ProfileItems, fields : {PlainFields}, gallery : {{PhotoA}},
                 ctypes : {{"image/jpeg"}}]
    /\ spc = "loop"
    /\ expected_count \in {NoCount} \cup (0..(MaxItems + 1))
    /\ scrolls = 0
    /\ seen_links = {}
    /\ rounds = 0
    /\ dropped = FALSE
    /\ scroll_result = <<>>
    /\ WorldFresh
    /\ ApiIdle
    /\ MainIdle
    /\ ItemIdle

(***************************************************************************)
(* The __main__ block, check_url_accessible, get_profile_info,             *)
(* get_all_item_urls and download_profile_pic                              *)
(***************************************************************************)
\* the run is over: normal end, exit(1), or the handler of line 488
Ended == pc \in {"done", "exit1", "critical"}

\* lines 432-434 and 470-472: where a validated URL leads
AfterValidationNoExit(v) == "check"
AfterValidation(v) == IF v = Rejected THEN "exit1" ELSE "check"

\* truth value of an optional text in a Python condition
TruthyText(t) == t \notin {None, Unbound, ""}

\* what get_profile_info can return: (None, None) when a lookup raises,
\* else the sanitized heading text and the src of the picture
ProfileInfos ==
    { <<None, None>>, <<"", "pic">>, <<"bob", None>>, <<"bob", "pic">> }

\* lines 430-434, 468-472, 480-484
MainArgs ==
    /\ pc = "start"
    /\ IF mode = "none"
       THEN pc' = "done" /\ UNCHANGED validated_url
       ELSE LET v == validate_url(raw)
            IN  /\ pc' = AfterValidation(v)
                /\ validated_url' = v
    /\ UNCHANGED <<site, apiVars, worldVars, scrollVars, itemVars, mode, raw, username,
                   profile_pic_url, item_urls, index, ga_username, ga_pic,
                   called, avatar, preflight>>

\* check_url_accessible, lines 410-425: the page loaded and showed no
\* not-found sign, its title held "404" or "not found", its alert said
\* "not exist", or a browser call raised
CheckVerdicts == {"ok", "title_404", "alert_not_exist", "raised"}

\* check_url_accessible returns True
AccessibleAlways(verdict) == TRUE
Accessible(verdict) == verdict = "ok"

\* check_url_accessible, line 409: no driver means the finally block
\* raises on the unbound name, past the return False of the handler
CheckSetup ==
    /\ pc = "check"
    /\ \/ /\ pc' = "critical"
          /\ preflight' = "no_driver"
          /\ UNCHANGED <<sessions, opened>>
       \/ /\ sessions' = sessions \cup {"check"}
          /\ opened' = opened \cup {"check"}
          /\ pc' = "check_load"
          /\ UNCHANGED preflight
    /\ UNCHANGED <<site, apiVars, folders, descs, ledger, http_used, scrollVars,
                   itemVars, mode, raw, validated_url, username,
                   profile_pic_url, item_urls, index, ga_username, ga_pic,
                   called, avatar>>

\* the download_images call of line 464 or 478 begins
CallDownloadImages(url) ==
    /\ dpc' = "call"
    /\ item_url' = url
    /\ article_name' = Unbound
    /\ fields' = NoFields
    /\ pidx' = 0
    /\ unique_image_urls' = <<>>
    /\ sel' = 0
    /\ retries' = 0
    /\ order' = <<>>
    /\ idx' = 0
    /\ probed' = {}
    /\ probe_failed' = {}
    /\ skipped' = FALSE
    /\ queries' = 0
    /\ fetch_log' = <<>>
    /\ written' = {}
    /\ disk_before' = << >>
    /\ rematched' = FALSE
    /\ sources' = {}

\* check_url_accessible, lines 410-427, and the exit(1) or the step that
\* follows it (lines 436-441, 474-478)
CheckLoad ==
    /\ pc = "check_load"
    /\ sessions' = sessions \ {"check"}
    /\ \E verdict \in CheckVerdicts :
         /\ preflight' = verdict
         /\ IF ~Accessible(verdict)
            THEN pc' = "exit1" /\ UNCHANGED <<itemVars, called>>
            ELSE IF mode = "all"
            THEN pc' = "main_setup" /\ UNCHANGED <<itemVars, called>>
            ELSE /\ pc' = "item_run"
                 /\ CallDownloadImages(validated_url)
                 /\ called' = called \cup {validated_url}
                 /\ UNCHANGED base_folder
    /\ UNCHANGED <<site, apiVars, opened, folders, descs, ledger, http_used, scrollVars,
                   mode, raw, validated_url, username, profile_pic_url,
                   item_urls, index, ga_username, ga_pic, avatar>>

\* line 441
MainSetup ==
    /\ pc = "main_setup"
    /\ \/ /\ pc' = "critical"
          /\ UNCHANGED <<sessions, opened>>
       \/ /\ sessions' = sessions \cup {"main"}
          /\ opened' = opened \cup {"main"}
          /\ pc' = "main_profile"
    /\ UNCHANGED <<site, apiVars, folders, descs, ledger, http_used, scrollVars,
                   itemVars, mode, raw, validated_url, username,
                   profile_pic_url, item_urls, index, ga_username, ga_pic,
                   called, avatar, preflight>>

\* lines 442-448
MainProfile ==
    /\ pc = "main_profile"
    /\ \/ \* driver.get raises
          /\ pc' = "critical"
          /\ UNCHANGED <<username, profile_pic_url>>
       \/ \E info \in ProfileInfos :
            /\ username' = info[1]
            /\ profile_pic_url' = info[2]
            /\ pc' = IF ~TruthyText(info[1]) THEN "exit1" ELSE "urls_setup"
    /\ UNCHANGED <<site, apiVars, worldVars, scrollVars, itemVars, mode, raw,
                   validated_url, item_urls, index, ga_username, ga_pic,
                   called, avatar, preflight>>

\* get_all_item_urls, line 196
GaSetup ==
    /\ pc = "urls_setup"
    /\ \/ /\ pc' = "critical"
          /\ UNCHANGED <<sessions, opened>>
       \/ /\ sessions' = sessions \cup {"urls"}
          /\ opened' = opened \cup {"urls"}
          /\ pc' = "urls_header"
    /\ UNCHANGED <<site, apiVars, folders, descs, ledger, http_used, scrollVars,
                   itemVars, mode, raw, validated_url, username,
                   profile_pic_url, item_urls, index, ga_username, ga_pic,
                   called, avatar, preflight>>

\* get_all_item_urls, lines 200-221: the try block and the call of the
\* detector
GaHeader ==
    /\ pc = "urls_header"
    /\ \/ \* driver.get raises: username stays unbound
          /\ expected_count' = NoCount
          /\ UNCHANGED <<ga_username, ga_pic>>
       \/ \E info \in ProfileInfos :
            /\ ga_username' = info[1]
            /\ ga_pic' = info[2]
            /\ \/ \* no heading within the wait
                  expected_count' = NoCount
               \/ \* the heading holds no digit
                  expected_count' = 0
               \/ \E n \in 0..(Cardinality(site.items) + 1) :
                    expected_count' = n
    /\ spc' = "loop"
    /\ scrolls' = 0
    /\ seen_links' = {}
    /\ rounds' = 0
    /\ dropped' = FALSE
    /\ scroll_result' = <<>>
    /\ pc' = "urls_scroll"
    /\ UNCHANGED <<site, apiVars, worldVars, itemVars, mode, raw, validated_url,
                   username, profile_pic_url, item_urls, index, called, avatar, preflight>>

\* get_all_item_urls, line 223, and the assignment of line 451
GaReturn ==
    /\ pc = "urls_scroll"
    /\ ScrollEnded
    /\ IF spc = "raised" \/ ga_username = Unbound
       THEN /\ pc' = "critical"
            /\ UNCHANGED <<username, profile_pic_url, item_urls>>
       ELSE /\ username' = ga_username
            /\ profile_pic_url' = ga_pic
            /\ item_urls' = scroll_result
            /\ pc' = "avatar"
    \* the frames of both functions are gone
    /\ spc' = "idle"
    /\ expected_count' = NoCount
    /\ scrolls' = 0
    /\ seen_links' = {}
    /\ rounds' = 0
    /\ dropped' = FALSE
    /\ scroll_result' = <<>>
    /\ ga_username' = Unbound
    /\ ga_pic' = Unbound
    /\ UNCHANGED <<site, apiVars, worldVars, itemVars, mode, raw, validated_url, index,
                   called, avatar, preflight>>

\* lines 124-126: the bare except of download_profile_pic takes every
\* failure of the request, the status test and the write, and returns None
AfterAvatarFatal(saved) == IF saved THEN "loop" ELSE "critical"
AfterAvatar(saved) == "loop"

\* lines 453-459 and download_profile_pic
MainAvatar ==
    /\ pc = "avatar"
    /\ IF TruthyText(username) /\ TruthyText(profile_pic_url)
       THEN /\ base_folder' = username
            /\ folders' = folders \cup {FullFolderPath("", username)}
            /\ http_used' = TRUE
            /\ \E saved \in BOOLEAN :
                 /\ avatar' = IF saved THEN "saved" ELSE "failed"
                 /\ pc' = AfterAvatar(saved)
       ELSE /\ base_folder' = ""
            /\ pc' = "loop"
            /\ UNCHANGED <<folders, http_used, avatar>>
    /\ index' = 1
    /\ UNCHANGED <<site, apiVars, sessions, opened, descs, ledger, scrollVars, mode, raw,
                   validated_url, username, profile_pic_url, item_urls,
                   ga_username, ga_pic, called, preflight, dpc, item_url,
                   article_name,
                   fields, pidx, unique_image_urls, sel, retries, order, idx,
                   probed, probe_failed, skipped, queries, fetch_log, written,
                   disk_before, rematched, sources>>

\* lines 462-464: the next pass of the item loop, or its end
MainLoop ==
    /\ pc = "loop"
    /\ IF index <= Len(item_urls)
       THEN /\ CallDownloadImages(item_urls[index])
            /\ called' = called \cup {item_urls[index]}
            /\ pc' = "item_run"
            /\ UNCHANGED base_folder
       ELSE /\ pc' = "done"
            /\ UNCHANGED <<itemVars, called>>
    /\ UNCHANGED <<site, apiVars, worldVars, scrollVars, mode, raw, validated_url,
                   username, profile_pic_url, item_urls, index, ga_username,
                   ga_pic, avatar, preflight>>

\* the frame of a download_images call that is over
ItemFrameGone ==
    /\ dpc' = "idle"
    /\ article_name' = Unbound
    /\ fields' = NoFields
    /\ pidx' = 0
    /\ unique_image_urls' = <<>>
    /\ sel' = 0
    /\ retries' = 0
    /\ order' = <<>>
    /\ idx' = 0
    /\ probed' = {}
    /\ probe_failed' = {}
    /\ skipped' = FALSE
    /\ queries' = 0
    /\ fetch_log' = <<>>
    /\ written' = {}
    /\ disk_before' = << >>
    /\ rematched' = FALSE
    /\ sources' = {}

\* download_images has returned or raised: nothing between line 464 and
\* the handler of line 488 catches what it raised
MainItemDone ==
    /\ pc = "item_run"
    /\ dpc \in {"returned", "raised"}
    /\ IF dpc = "raised"
       THEN pc' = "critical" /\ UNCHANGED index
       ELSE IF mode = "all"
       THEN pc' = "loop" /\ index' = index + 1
       ELSE pc' = "done" /\ UNCHANGED index
    /\ ItemFrameGone
    /\ UNCHANGED <<site, apiVars, worldVars, scrollVars, item_url, base_folder, mode,
                   raw, validated_url, username, profile_pic_url, item_urls,
                   ga_username, ga_pic, called, avatar, preflight>>

(***************************************************************************)
(* One call download_images(url) on its own (the --item mode after its     *)
(* checks), over item pages with every combination of fields, and over     *)
(* item pages with every kind of image                                     *)
(***************************************************************************)
\* description.txt left in the folder by an earlier run that found all
EarlierDescription == [f \in Fields |-> "red"]
EarlierDisks ==
    { << >>, [p \in {FullFolderPath("", "title")} |-> EarlierDescription] }

InitCall ==
    /\ ScrollIdle
    /\ ApiIdle
    /\ MainIdle
    /\ http_used = FALSE
    /\ sessions = {}
    /\ opened = {}
    /\ folders = {}
    /\ descs \in EarlierDisks
    /\ ledger = <<>>
    /\ dpc = "call"
    /\ item_url = "item1"
    /\ base_folder = ""
    /\ ItemLocalsFresh

\* every combination of fields an item page can show
ItemPages ==
    { page \in [Fields -> {"  ", " red ", Absent}] :
        \A f \in Fields : page[f] \in PageTexts(f) \cup {Absent} }

InitFields ==
    /\ site \in [items : {{}}, fields : ItemPages,
                 gallery : {{PhotoA}}, ctypes : {{"image/jpeg"}}]
    /\ InitCall

InitImages ==
    /\ site \in [items : {{}}, fields : {PlainFields}, gallery : {SrcUniverse},
                 ctypes : {{"image/jpeg"}}]
    /\ InitCall

\* item pages with one photo, by the ending of its URL, served with every
\* content type
InitExt ==
    /\ site \in [items : {{}}, fields : {PlainFields},
                 gallery : { {photo} : photo \in TailPhotos },
                 ctypes : {ContentTypes}]
    /\ InitCall

SpecFields == InitFields /\ [][NextItem]_vars
SpecImages == InitImages /\ [][NextItem]_vars
SpecExt == InitExt /\ [][NextItem]_vars

(***************************************************************************)
(* A whole run of the program                                              *)
(***************************************************************************)
\* argument texts: one that validate_url accepts, the others it rejects
RawSamples ==
    { <<" ", "www.", "vinted.", "fr", "/Member/", "1-bob", " ">>,
      <<" ">>,
      <<"www.", "vinted.", "com">>,
      <<"ftp://", "www.", "vinted.", "com", "/items/", "9-dress">>,
      <<"https://", "www.", "evil.", "com", "/items/", "9-dress">>,
      <<"https://", "www.", "vinted.", "com", "/other/", "1-bob">> }

\* the profiles of a whole run: the first MaxHarvest item URLs, or fewer
HarvestItems == SUBSET { u \in ItemUniverse : \E i \in 1..MaxHarvest : u = ItemNames[i] }

\* an item page that shows none of the five fields
BareFields == [f \in Fields |-> Absent]

Init ==
    /\ site \in [items : HarvestItems, fields : {BareFields}, gallery : {{PhotoA}},
                 ctypes : {{"image/jpeg"}}]
    /\ WorldFresh
    /\ ApiIdle
    /\ ScrollIdle
    /\ ItemIdle
    /\ pc = "start"
    /\ mode \in {"all", "item", "none"}
    /\ raw \in RawSamples
    /\ validated_url = <<>>
    /\ username = None
    /\ profile_pic_url = None
    /\ item_urls = <<>>
    /\ index = 0
    /\ ga_username = Unbound
    /\ ga_pic = Unbound
    /\ called = {}
    /\ avatar = "none"
    /\ preflight = "none"

Next ==
    \/ MainArgs \/ CheckSetup \/ CheckLoad \/ MainSetup \/ MainProfile
    \/ GaSetup \/ GaHeader \/ ScrollRound \/ ScrollReturn \/ GaReturn
    \/ MainAvatar \/ MainLoop \/ MainItemDone
    \/ DiSetup \/ DiNavigate \/ DiProbe \/ DiSave
    \/ DiSelector \/ DiRetry \/ DiDownload \/ DiFinally

Spec == Init /\ [][Next]_vars

(***************************************************************************)
(* validate_url on its own (lines 431 and 469), for every argument text    *)
(* built from optional whitespace, an optional scheme, host labels, a      *)
(* top-level name and an optional path                                     *)
(***************************************************************************)
HostLabels == {"www.", "vinted.", "notvinted.", "evil."}
TldPieces == {"com", "fr"}

\* all sequences of at most n host labels
RECURSIVE LabelSeqs(_)
LabelSeqs(n) ==
    IF n = 0 THEN { <<>> }
    ELSE LabelSeqs(n - 1) \cup
         { Append(l, x) : l \in LabelSeqs(n - 1), x \in HostLabels }

UrlTexts ==
    { lead \o scheme \o labels \o <<tld>> \o path \o trail :
        lead \in {<<>>, <<" ">>},
        scheme \in {<<>>} \cup { <<sp>> : sp \in SchemePieces },
        labels \in LabelSeqs(MaxLabels),
        tld \in TldPieces,
        path \in {<<>>} \cup { <<pp, "9-dress">> : pp \in PathPieces },
        trail \in {<<>>, <<" ">>} }

InitUrl ==
    /\ site = [items |-> {}, fields |-> BareFields, gallery |-> {PhotoA},
               ctypes |-> {"image/jpeg"}]
    /\ WorldFresh
    /\ ApiIdle
    /\ ScrollIdle
    /\ ItemIdle
    /\ pc = "start"
    /\ mode \in {"all", "item", "none"}
    /\ raw \in UrlTexts
    /\ validated_url = <<>>
    /\ username = None
    /\ profile_pic_url = None
    /\ item_urls = <<>>
    /\ index = 0
    /\ ga_username = Unbound
    /\ ga_pic = Unbound
    /\ called = {}
    /\ avatar = "none"
    /\ preflight = "none"

NextUrl == MainArgs

SpecUrl == InitUrl /\ [][NextUrl]_vars

(***************************************************************************)
(* api.py: extract_username_from_url and the handlers scrape_vinted_profile *)
(* and scrape_vinted_item.  A URL text is again the sequence of its pieces; *)
(* a host label carries its dot ("vinted.", "co."), the last label does not *)
(***************************************************************************)
\* pieces that [a-z]+ matches as a whole
LowerAlphaPieces == {"com", "fr", "uk", "alice", "b", "ref", "dress"}
\* pieces that \d+ matches as a whole
DigitPieces == {"12345"}
\* pieces that hold a "/" or a "?", which [^/\?] does not match
StopPieces == {"/", "?", "/member/", "/user/", "/items/", "https://"}

\* the piece ends in the text 'vinted.'
EndsInVintedDot(piece) == piece \in {"vinted.", "notvinted."}

\* the longest run of pieces from position i that [^/\?]+ matches
RECURSIVE NameRun(_, _)
NameRun(text, i) ==
    IF i > Len(text) \/ text[i] \in StopPieces THEN <<>>
    ELSE <<text[i]>> \o NameRun(text, i + 1)

\* vinted\.[a-z]+/  matches at piece i, followed by the path piece
HostThenPath(text, i, pathPiece) ==
    /\ i + 2 <= Len(text)
    /\ EndsInVintedDot(text[i])
    /\ text[i + 1] \in LowerAlphaPieces
    /\ text[i + 2] = pathPiece

\* vinted\.[a-z]+/member/(\d+)-([^/\?]+)  matches at piece i
MatchesMember(text, i) ==
    /\ HostThenPath(text, i, "/member/")
    /\ i + 5 <= Len(text)
    /\ text[i + 3] \in DigitPieces
    /\ text[i + 4] = "-"
    /\ NameRun(text, i + 5) # <<>>

\* vinted\.[a-z]+/user/([^/\?]+)  matches at piece i
MatchesUser(text, i) ==
    /\ HostThenPath(text, i, "/user/")
    /\ NameRun(text, i + 3) # <<>>

\* re.search: the leftmost position where the pattern matches
Leftmost(positions) == CHOOSE i \in positions : \A j \in positions : i <= j

\* extract_username_from_url returns None
NoUsername == <<"<None>">>

\* extract_username_from_url
extract_username_from_url(url) ==
    LET member == { i \in 1..Len(url) : MatchesMember(url, i) }
        user == { i \in 1..Len(url) : MatchesUser(url, i) }
    IN  IF member # {} THEN NameRun(url, Leftmost(member) + 5)
        ELSE IF user # {} THEN NameRun(url, Leftmost(user) + 3)
        ELSE NoUsername

\* line 118
unknown_user == <<"unknown_user">>

\* URL texts of requests: optional scheme, a host, a top-level name of one
\* or two labels, a path, and what may follow the name
RequestUrls ==
    { scheme \o host \o tld \o path \o trail :
        scheme \in {<<>>, <<"https://">>},
        host \in {<<"www.", "vinted.">>, <<"vinted.">>, <<"notvinted.">>,
                  <<"evil.">>},
        tld \in {<<"com">>, <<"fr">>, <<"co.", "uk">>},
        path \in {<<"/member/", "12345", "-", "alice">>,
                  <<"/member/", "12345", "-", "alice", "-", "b">>,
                  <<"/member/", "alice">>,
                  <<"/user/", "alice">>,
                  <<"/user/", "12345", "-", "alice">>,
                  <<"/items/", "12345", "-", "dress">>,
                  <<>>},
        trail \in {<<>>, <<"/">>, <<"?", "ref">>} }

\* names of the directories tempfile.mkdtemp makes, one per handler
TempNames == <<"tmp1", "tmp2", "tmp3", "tmp4">>
TempDir(h) == TempNames[h]

\* a request that has arrived and whose handler has not started
Request(kind, url) ==
    [pc |-> "request", kind |-> kind, url |-> url, username |-> <<>>,
     original_cwd |-> Unbound, ran_from |-> Unbound]

\* lines 109-118 and 181-185: the URL of the request, the username
ApiReceive(h) ==
    /\ handlers[h].pc = "request"
    /\ LET me == handlers[h]
           found == extract_username_from_url(me.url)
       IN  IF me.url = <<>>
           THEN \* answered with 400
                handlers' = [handlers EXCEPT ![h].pc = "responded"]
           ELSE handlers' = [handlers EXCEPT
                    ![h].pc = "mkdtemp",
                    ![h].username =
                        IF me.kind = "item" THEN <<>>
                        ELSE IF found = NoUsername THEN unknown_user
                        ELSE found]
    /\ UNCHANGED <<site, worldVars, mainVars, scrollVars, itemVars, cwd,
                   temp_dirs>>

\* the directory is there: os.getcwd and os.chdir raise when it is not
DirExists(dir) == dir = ServerRoot \/ dir \in temp_dirs

\* lines 121-123 and 188-190: tempfile.mkdtemp and the downloads folder
ApiMkdtemp(h) ==
    /\ handlers[h].pc = "mkdtemp"
    /\ temp_dirs' = temp_dirs \cup {TempDir(h)}
    /\ handlers' = [handlers EXCEPT ![h].pc = "getcwd"]
    /\ UNCHANGED <<site, worldVars, mainVars, scrollVars, itemVars, cwd>>

\* lines 127 and 194: original_cwd = os.getcwd(), the working directory of
\* the process as it is now.  When that directory is gone the call raises,
\* the finally block raises on the unbound original_cwd before its rmtree,
\* and the handler answers 500
ApiGetcwd(h) ==
    /\ handlers[h].pc = "getcwd"
    /\ handlers' =
         IF DirExists(cwd)
         THEN [handlers EXCEPT ![h].pc = "chdir_in", ![h].original_cwd = cwd]
         ELSE [handlers EXCEPT ![h].pc = "responded"]
    /\ UNCHANGED <<site, worldVars, mainVars, scrollVars, itemVars, cwd,
                   temp_dirs>>

\* lines 128 and 195: os.chdir(temp_dir)
ApiChdirIn(h) ==
    /\ handlers[h].pc = "chdir_in"
    /\ cwd' = TempDir(h)
    /\ handlers' = [handlers EXCEPT ![h].pc = "run"]
    /\ UNCHANGED <<site, worldVars, mainVars, scrollVars, itemVars, temp_dirs>>

\* lines 131-143 and 198-210: the interpreter and the scraper are looked
\* up under original_cwd and run as a child process; under another
\* directory than the server's there is no venv/bin/python to start
ApiRun(h) ==
    /\ handlers[h].pc = "run"
    /\ \E result \in {"returned", "timeout", "no_such_file"} :
         /\ result = "no_such_file" <=> handlers[h].original_cwd # ServerRoot
         /\ handlers' = [handlers EXCEPT
                ![h].ran_from = handlers[h].original_cwd,
                ![h].pc = IF result = "returned" THEN "chdir_back"
                          ELSE "finally_chdir"]
    /\ UNCHANGED <<site, worldVars, mainVars, scrollVars, itemVars, cwd,
                   temp_dirs>>

\* lines 145 and 212: os.chdir(original_cwd) after the child has ended;
\* what follows up to the finally block leaves the directories alone
ApiChdirBack(h) ==
    /\ handlers[h].pc = "chdir_back"
    /\ cwd' = IF DirExists(handlers[h].original_cwd)
              THEN handlers[h].original_cwd ELSE cwd
    /\ handlers' = [handlers EXCEPT ![h].pc = "finally_chdir"]
    /\ UNCHANGED <<site, worldVars, mainVars, scrollVars, itemVars, temp_dirs>>

\* lines 163 and 234: os.chdir(original_cwd) of the finally block; when it
\* raises, the rmtree of the next line is not reached
ApiFinallyChdir(h) ==
    /\ handlers[h].pc = "finally_chdir"
    /\ IF DirExists(handlers[h].original_cwd)
       THEN /\ cwd' = handlers[h].original_cwd
            /\ handlers' = [handlers EXCEPT ![h].pc = "finally_rmtree"]
       ELSE /\ handlers' = [handlers EXCEPT ![h].pc = "responded"]
            /\ UNCHANGED cwd
    /\ UNCHANGED <<site, worldVars, mainVars, scrollVars, itemVars, temp_dirs>>

\* lines 164 and 235: shutil.rmtree(temp_dir, ignore_errors=True), and the
\* answer
ApiFinallyRmtree(h) ==
    /\ handlers[h].pc = "finally_rmtree"
    /\ temp_dirs' = temp_dirs \ {TempDir(h)}
    /\ handlers' = [handlers EXCEPT ![h].pc = "responded"]
    /\ UNCHANGED <<site, worldVars, mainVars, scrollVars, itemVars, cwd>>

\* a profile URL that both patterns of extract_username_from_url can read
PlainRequestUrl == <<"https://", "www.", "vinted.", "com", "/member/", "12345", "-", "alice">>

\* MaxHandlers requests, of either kind, with or without a URL, handled by
\* threads of one process
InitApi ==
    /\ site = [items |-> {}, fields |-> BareFields, gallery |-> {PhotoA},
               ctypes |-> {"image/jpeg"}]
    /\ WorldFresh
    /\ ScrollIdle
    /\ MainIdle
    /\ ItemIdle
    /\ cwd = ServerRoot
    /\ temp_dirs = {}
    /\ handlers \in [1..MaxHandlers ->
                        { Request(kind, url) :
                            kind \in {"profile", "item"},
                            url \in {PlainRequestUrl, <<>>} }]

NextApi ==
    \E h \in DOMAIN handlers :
        \/ ApiReceive(h) \/ ApiMkdtemp(h) \/ ApiGetcwd(h) \/ ApiChdirIn(h)
        \/ ApiRun(h) \/ ApiChdirBack(h) \/ ApiFinallyChdir(h)
        \/ ApiFinallyRmtree(h)

SpecApi == InitApi /\ [][NextApi]_vars

\* one profile request, for every URL text
InitUsername ==
    /\ site = [items |-> {}, fields |-> BareFields, gallery |-> {PhotoA},
               ctypes |-> {"image/jpeg"}]
    /\ WorldFresh
    /\ ScrollIdle
    /\ MainIdle
    /\ ItemIdle
    /\ cwd = ServerRoot
    /\ temp_dirs = {}
    /\ handlers \in [{1} -> { Request("profile", url) :
                                url \in RequestUrls \cup {<<>>} }]

NextUsername == \E h \in DOMAIN handlers : ApiReceive(h)

SpecUsername == InitUsername /\ [][NextUsername]_vars

NextScroll == ScrollRound \/ ScrollReturn

SpecScroll == InitScroll /\ [][NextScroll]_vars
\* the interpreter keeps running the function once it is called
FairSpecScroll == SpecScroll /\ WF_vars(NextScroll)

(***************************************************************************)
(* Properties of the detector                                              *)
(***************************************************************************)
\* C4: scroll_until_all_items_loaded starts at most max_scrolls scroll
\* rounds and then ends, whatever expected_count is (None, 0, right, too
\* small, too large) and whatever the page renders, nothing included.
C4_TerminatesWithinCap == [](rounds <= max_scrolls) /\ <>ScrollEnded

\* the cap is what ended the call: a count that is too large, a page that
\* never rendered a single item
C4_Witness ==
    /\ spc = "returned"
    /\ rounds = max_scrolls
    /\ expected_count > Cardinality(site.items)
    /\ seen_links = {}

\* the K items of the page are what expected_count announced
CountIsRight == expected_count > 0 /\ expected_count = Cardinality(site.items)

\* C5 (as stated): with expected_count = K, K items on the page and all of
\* them rendered within the round budget, exactly K unique URLs are
\* returned and fewer than max_scrolls rounds were used.
C5_ExitsBeforeLastRound ==
    (CountIsRight /\ spc = "returned" /\ seen_links = site.items)
        => /\ Len(scroll_result) = expected_count
           /\ Range(scroll_result) = site.items
           /\ rounds < max_scrolls

\* C5 (amended): under the same premises exactly K unique URLs are
\* returned, and the loop is left by the early exit in the very round that
\* sees the K-th URL (scrolls < max_scrolls), which may be the last round
\* of the budget.
C5_ExactlyKByEarlyExit ==
    CountIsRight
        => /\ spc = "loop" => seen_links # site.items
           /\ (spc = "returned" /\ seen_links = site.items)
                => /\ Len(scroll_result) = expected_count
                   /\ Range(scroll_result) = site.items
                   /\ Cardinality(Range(scroll_result)) = Len(scroll_result)
                   /\ scrolls < max_scrolls
                   /\ rounds <= max_scrolls

\* three items, announced as three, found over several rounds
C5_Witness ==
    /\ CountIsRight
    /\ expected_count = 3
    /\ spc = "returned"
    /\ seen_links = site.items
    /\ rounds > 1
    /\ Len(scroll_result) = 3

\* C14: the accumulated set of discovered URLs never loses a member and
\* never shrinks from one round to the next, and the returned list holds
\* every URL seen in any round, also those whose anchor was no longer in
\* the DOM in a later round.
C14_SeenLinksOnlyGrows ==
    /\ [][/\ seen_links \subseteq seen_links'
          /\ Cardinality(seen_links') >= Cardinality(seen_links)]_vars
    /\ [](spc = "returned" => Range(scroll_result) = seen_links)

\* both items were seen, a later round no longer showed one of them, and
\* both are in the returned list
C14_Witness ==
    /\ spc = "returned"
    /\ dropped
    /\ Cardinality(seen_links) = 2
    /\ Range(scroll_result) = seen_links

\* C15: with expected_count 0 or None the call never takes the early exit:
\* it returns only after exactly max_scrolls rounds, the list it returns is
\* whatever was found, and running out of rounds raises nothing (a call
\* that ends otherwise was ended by an error of a browser call).
C15_NoCountRunsToCap ==
    expected_count \in {0, NoCount}
        => /\ spc # "break"
           /\ ~LoopCond(scrolls) => spc \in {"loop", "returned"}
           /\ spc = "returned"
                => /\ rounds = max_scrolls
                   /\ scrolls = max_scrolls
                   /\ Range(scroll_result) = seen_links
                   /\ Len(scroll_result) = Cardinality(seen_links)

\* the heading held no digit, the page showed all its three items, and the
\* call still ran its max_scrolls rounds before it returned them
C15_Witness ==
    /\ expected_count = 0
    /\ spc = "returned"
    /\ rounds = max_scrolls
    /\ Cardinality(seen_links) = 3
    /\ seen_links = site.items

(***************************************************************************)
(* Properties of download_images                                           *)
(***************************************************************************)
ItemFolder == FullFolderPath(base_folder, article_name)

\* the call is past its text-field block (lines 240-302)
PastFields == dpc \in {"select", "retry", "download", "finally", "returned"}

\* the number of fetches of this call that failed
RECURSIVE FailedFetches(_)
FailedFetches(log) ==
    IF log = <<>> THEN 0
    ELSE (IF Head(log).outcome # "ok" THEN 1 ELSE 0) + FailedFetches(Tail(log))

\* C2: when the call has returned, with N URLs in the deduplicated set of
\* which K fetches failed, all N were attempted, exactly N-K image files
\* were written and exactly K ledger lines were appended.
C2_FilesAndLedgerAddUp ==
    dpc = "returned"
        => LET N == Len(unique_image_urls)
               K == FailedFetches(fetch_log)
           IN  /\ Len(fetch_log) = N
               /\ Cardinality(written) = N - K
               /\ Len(ledger) = K

\* C3: the five probes are independent: every field is probed, a probe
\* that raised leaves its own field None, and every other field holds the
\* stripped text of its element.
C3_ProbesIndependent ==
    /\ \A f \in probed :
         IF f \in probe_failed
         THEN fields[f] = None
         ELSE site.fields[f] # Absent /\ fields[f] = Strip(site.fields[f])
    /\ \A f \in Fields \ probed : fields[f] = None
    /\ (PastFields /\ ~skipped) => probed = Fields

\* the price and condition probes raised although the page shows a price;
\* description and color were still read, color as blank text
C3_Witness ==
    /\ PastFields
    /\ probe_failed = {"price", "condition"}
    /\ site.fields["price"] # Absent
    /\ fields["description"] = "red"
    /\ fields["size"] = "red"
    /\ fields["color"] = ""

\* C6: no image URL is fetched twice by one call and no two files written
\* by one call come from the same URL, also when queries match a URL again.
C6_EachUrlFetchedOnce ==
    /\ \A i, j \in 1..Len(fetch_log) :
         fetch_log[i].url = fetch_log[j].url => i = j
    /\ \A v, w \in written : v.url = w.url => v = w

\* a URL was matched more than once and two files were written
C6_Witness ==
    /\ dpc = "returned"
    /\ rematched
    /\ Len(fetch_log) = 2
    /\ Cardinality(written) = 2

\* C7: a call that finds description.txt in the item folder leaves the file
\* as it was, runs none of the five probes, and still queries for images
\* and fetches every URL it collected.
C7_ExistingDescriptionKept ==
    (article_name # Unbound /\ ItemFolder \in DOMAIN disk_before)
        => /\ probed = {}
           /\ ItemFolder \in DOMAIN descs
           /\ descs[ItemFolder] = disk_before[ItemFolder]
           /\ dpc \in {"retry", "download", "finally", "returned"} => queries >= 1
           /\ dpc = "returned" => Len(fetch_log) = Len(unique_image_urls)

\* the file is there, the page no longer shows a description, and an image
\* was fetched
C7_Witness ==
    /\ dpc = "returned"
    /\ article_name # Unbound
    /\ ItemFolder \in DOMAIN disk_before
    /\ site.fields["description"] = Absent
    /\ Len(fetch_log) >= 1

\* this call found no description.txt and has decided on writing one
DecidedOnSave == PastFields /\ ~skipped /\ article_name # Unbound

\* C8 (as stated): without an earlier description.txt, the file is written
\* if and only if one of the five fields was found, blank text included.
C8_WrittenIffAnyFound ==
    DecidedOnSave
        => (ItemFolder \in DOMAIN descs <=> \E f \in Fields : fields[f] # None)

\* C8 (amended): without an earlier description.txt, the file is written
\* if and only if one of the five fields was found with text that is not
\* blank; a field found with blank text counts as not found.
C8_WrittenIffAnyText ==
    DecidedOnSave
        => /\ ItemFolder \in DOMAIN descs
                <=> \E f \in Fields : fields[f] \notin {None, ""}
           /\ ItemFolder \in DOMAIN descs => descs[ItemFolder] = fields

\* fields found, all of them blank: nothing is written
C8_Witness ==
    /\ DecidedOnSave
    /\ ItemFolder \notin DOMAIN descs
    /\ fields["description"] = ""
    /\ fields["color"] = ""

\* the fetch failed before line 382 opened the image file
FailedBeforeOpen(outcome) == outcome \in {"get_raises", "bad_status"}

\* the URLs of the fetches that failed, in the order of the fetches
RECURSIVE FailedUrls(_)
FailedUrls(log) ==
    IF log = <<>> THEN <<>>
    ELSE (IF Head(log).outcome # "ok" THEN <<Head(log).url>> ELSE <<>>)
         \o FailedUrls(Tail(log))

\* C12: the ordinal of an image file is the 1-based position of its URL in
\* the iteration over the deduplicated set and is not renumbered after a
\* failure: the i-th fetch is of the i-th URL, a fetch that succeeds writes
\* the file of ordinal i, a fetch that fails (an error status, no answer)
\* writes no file of ordinal i and leaves its number unused, and the ledger
\* holds one line per failed fetch, in order.
C12_OrdinalIsPosition ==
    /\ \A i \in 1..Len(fetch_log) :
         /\ fetch_log[i].url = order[i]
         /\ fetch_log[i].outcome = "ok"
              => \E w \in written :
                     w.idx = i /\ w.url = order[i] /\ w.complete
         /\ FailedBeforeOpen(fetch_log[i].outcome)
              => \A w \in written : w.idx # i
    /\ \A w \in written :
         w.idx \in 1..Len(fetch_log) /\ w.url = order[w.idx]
    /\ ledger = FailedUrls(fetch_log)

\* three URLs, the second fetch answered with an error status: files 1 and
\* 3, one ledger line
C12_Witness ==
    /\ dpc = "returned"
    /\ Len(order) = 3
    /\ fetch_log[1].outcome = "ok"
    /\ fetch_log[2].outcome = "bad_status"
    /\ fetch_log[3].outcome = "ok"
    /\ { w.idx : w \in written } = {1, 3}
    /\ ledger = <<order[2]>>

\* the extension an image URL ends in, as a file extension
UrlExtensions(tail) ==
    IF LowerText(tail) \in {".jpg", ".jpeg"} THEN {".jpg", LowerText(tail)}
    ELSE {LowerText(tail)}

\* C16: the extension of an image file is .jpg when the content type
\* contains jpeg, .png when it contains png, and otherwise it is the
\* extension of the URL, or .jpg when the URL has none.
C16_ExtensionAsStated ==
    \A w \in written :
        LET content_type == LowerText(w.ctype)
        IN  IF Contains(content_type, "jpeg") THEN w.ext = ".jpg"
            ELSE IF Contains(content_type, "png") THEN w.ext = ".png"
            ELSE IF w.url.tail # "" THEN w.ext \in UrlExtensions(w.url.tail)
            ELSE w.ext = ".jpg"

\* C17: the selector strategies are queried in their listed order, one
\* query each, and with an empty set in hand; the first strategy whose
\* query adds a URL ends the search: it is the only source of the collected
\* set and no later strategy, nor the scroll fallback, is queried.
C17_FirstYieldingStrategyIsFinal ==
    /\ dpc = "select"
         => /\ sel \in 1..Len(image_selectors)
            /\ queries = sel - 1
            /\ unique_image_urls = <<>>
            /\ sources = {}
    /\ \A k \in sources :
         k \in 1..Len(image_selectors)
            => /\ sources = {k}
               /\ sel = k
               /\ queries = k
               /\ dpc \in {"download", "finally", "returned"}

\* the first strategy added nothing, the second added two URLs, and the
\* call went on to fetch them without another query
C17_Witness ==
    /\ dpc = "returned"
    /\ sources = {2}
    /\ queries = 2
    /\ Len(unique_image_urls) = 2
    /\ Len(fetch_log) = 2

\* C18: the scroll fallback runs only when all selector strategies added
\* nothing; it makes at most scroll_attempts cycles and none after the first
\* cycle that adds a URL; when no cycle adds any, the call goes on to its
\* end with no fetch, no file and no ledger line.
C18_FallbackOnlyWhenNothingFound ==
    /\ dpc = "retry"
         => /\ unique_image_urls = <<>>
            /\ sources = {}
            /\ sel = Len(image_selectors)
            /\ retries < scroll_attempts
            /\ queries = Len(image_selectors) + retries
    /\ queries <= Len(image_selectors) + scroll_attempts
    /\ ScrollFallback \in sources
         => /\ sources = {ScrollFallback}
            /\ dpc \in {"download", "finally", "returned"}
            /\ queries = Len(image_selectors) + retries + 1
    /\ (queries = Len(image_selectors) + scroll_attempts /\ sources = {})
         => /\ dpc \in {"finally", "returned"}
            /\ unique_image_urls = <<>>
            /\ fetch_log = <<>>
            /\ written = {}
            /\ ledger = <<>>

\* all strategies and all three cycles found nothing: the call returned
\* without a fetch, its browser session closed
C18_Witness ==
    /\ dpc = "returned"
    /\ queries = Len(image_selectors) + scroll_attempts
    /\ unique_image_urls = <<>>
    /\ fetch_log = <<>>
    /\ sessions = {}

(***************************************************************************)
(* Properties of a whole run                                               *)
(***************************************************************************)
\* C1: in profile mode, when the run is over, download_images was called
\* for every discovered item URL, whatever happened to the items before it.
C1_EveryItemProcessed ==
    (mode = "all" /\ Ended /\ index >= 1) => called = Range(item_urls)

\* C9: when the run is over, no browser session is left open.
C9_AllSessionsClosed == Ended => sessions = {}

\* C10: once the argument is rejected by validate_url the run is at
\* exit(1), and no browser session was opened, no HTTP request was made
\* and no folder or file was created.
C10_RejectedNoEffects ==
    (mode # "none" /\ validate_url(raw) = Rejected /\ pc # "start")
        => /\ pc = "exit1"
           /\ opened = {}
           /\ sessions = {}
           /\ ~http_used
           /\ folders = {}
           /\ descs = << >>
           /\ ledger = <<>>
           /\ written = {}
           /\ called = {}

\* a URL of another host was given as --item and the run has ended
C10_Witness ==
    /\ pc = "exit1"
    /\ mode = "item"
    /\ Len(raw) > 1
    /\ validate_url(raw) = Rejected

\* C13: in profile mode no item is processed without an output root: a
\* run that has called download_images has a username, and the base folder
\* of every call is the non-empty profile folder named after it, also when
\* the probe made by get_all_item_urls failed.
C13_ItemsUnderProfileFolder ==
    (mode = "all" /\ called # {})
        => /\ TruthyText(username)
           /\ base_folder = username
           /\ base_folder # ""

\* C19: at any moment of a run at most one browser session is open.
C19_OneSessionAtATime == Cardinality(sessions) <= 1

\* C20: a pre-flight check that found a not-found sign (title, alert) or
\* that failed (a browser call raised, no browser could be started) ends
\* the run as a failure, by exit(1) or, when no browser could be started,
\* by the handler of line 488, and no folder or file was created, no HTTP
\* request made and no item processed.
C20_FailedPreflightEndsEmpty ==
    preflight \notin {"none", "ok"}
        => /\ pc \in {"exit1", "critical"}
           /\ preflight # "no_driver" => pc = "exit1"
           /\ sessions = {}
           /\ opened \subseteq {"check"}
           /\ folders = {}
           /\ descs = << >>
           /\ ledger = <<>>
           /\ ~http_used
           /\ called = {}
           /\ dpc = "idle"

\* the profile page answered with the alert that the member does not exist
C20_Witness ==
    /\ mode = "all"
    /\ preflight = "alert_not_exist"
    /\ pc = "exit1"
    /\ opened = {"check"}
    /\ folders = {}

\* C21: in profile mode with a username, a failed avatar download does not
\* stop the run: the run is then in the item loop or past it, with the
\* profile folder created and used as base folder of every download_images
\* call; it can only have ended early inside the download_images call of
\* an item, by an error that call let out, and a run that reached its end
\* has processed every discovered item.
C21_AvatarFailureNotFatal ==
    avatar = "failed"
        => /\ TruthyText(username)
           /\ base_folder = username
           /\ FullFolderPath("", username) \in folders
           /\ pc \in {"loop", "item_run", "done", "critical"}
           /\ pc = "item_run" => dpc # "idle"
           /\ pc = "critical"
                => /\ index \in 1..Len(item_urls)
                   /\ item_urls[index] \in called
           /\ pc = "done" => called = Range(item_urls)

\* the avatar could not be saved, and both items of the profile were
\* processed under the profile folder
C21_Witness ==
    /\ avatar = "failed"
    /\ pc = "done"
    /\ Len(item_urls) = 2
    /\ called = Range(item_urls)
    /\ base_folder = "bob"
    /\ \E name \in ArticleNames : FullFolderPath("bob", name) \in folders

(***************************************************************************)
(* Properties of validate_url                                              *)
(***************************************************************************)
\* the host is the marketplace name as registered domain, under any
\* top-level name, with or without subdomains
HostInFamily(netloc) ==
    /\ Len(netloc) >= 2
    /\ netloc[Len(netloc) - 1] = "vinted."
    /\ netloc[Len(netloc)] \in TldPieces

\* C11: every URL that validate_url accepts and returns starts with http or
\* https and its host belongs to the marketplace's domain family; a host
\* that only contains the marketplace name inside another domain is not
\* accepted.
C11_AcceptedHostInFamily ==
    (mode # "none" /\ pc # "start" /\ validated_url # Rejected)
        => /\ StartsWithWebScheme(validated_url)
           /\ HostInFamily(UrlParse(validated_url).netloc)

(***************************************************************************)
(* Properties of api.py                                                    *)
(***************************************************************************)
\* the pieces of a URL text before its first path piece, scheme left out
RECURSIVE HostOf(_)
HostOf(url) ==
    IF url = <<>> \/ Head(url) \in StopPieces \ {"https://"} THEN <<>>
    ELSE IF Head(url) = "https://" THEN HostOf(Tail(url))
    ELSE <<Head(url)>> \o HostOf(Tail(url))

\* what follows the host
PathOf(url) ==
    LET skip == Len(HostOf(url)) + (IF url # <<>> /\ Head(url) = "https://"
                                    THEN 1 ELSE 0)
    IN  SubSeq(url, skip + 1, Len(url))

\* the host is the marketplace name under a top-level name of one label or
\* of two (co.uk)
OnMarketplace(host) ==
    \/ HostInFamily(host)
    \/ /\ Len(host) >= 3
       /\ host[Len(host) - 2] = "vinted."
       /\ host[Len(host) - 1] = "co."
       /\ host[Len(host)] = "uk"

\* C22: for a profile request whose URL is on a top-level variant of the
\* marketplace domain, one-label or two-label, the username is {name} for
\* the path member/{numericID}-{name} (not the ID) and {name} for the path
\* user/{name}; when no pattern matches, the handler takes 'unknown_user'
\* and goes on.
C22_UsernameFromUrl ==
    \A h \in DOMAIN handlers :
        LET me == handlers[h]
            path == PathOf(me.url)
        IN  (me.kind = "profile" /\ me.pc # "request" /\ me.url # <<>>)
              => /\ me.pc = "mkdtemp"
                 /\ extract_username_from_url(me.url) = NoUsername
                      => me.username = unknown_user
                 /\ ( /\ OnMarketplace(HostOf(me.url))
                      /\ Len(path) >= 4
                      /\ path[1] = "/member/"
                      /\ path[2] \in DigitPieces
                      /\ path[3] = "-" )
                      => me.username = NameRun(path, 4)
                 /\ ( /\ OnMarketplace(HostOf(me.url))
                      /\ Len(path) >= 2
                      /\ path[1] = "/user/" )
                      => me.username = NameRun(path, 2)

\* C23: with several requests handled at the same time, every handler runs
\* the scraper from the server's original working directory, and once all
\* handlers have answered, the working directory of the process is the
\* original one and no temporary directory is left.
C23_ConcurrentHandlersRestoreCwd ==
    /\ \A h \in DOMAIN handlers :
         handlers[h].ran_from \in {Unbound, ServerRoot}
    /\ (\A h \in DOMAIN handlers : handlers[h].pc = "responded")
         => /\ cwd = ServerRoot
            /\ temp_dirs = {}

====
